---- MODULE Spec2Model ----
(***************************************************************************)
(* The workflow execution pipeline of ComfyUI_Workflow_Backend:            *)
(*   POST /api/workflows/execute   (app/api/workflows.py)                  *)
(*   POST /api/callback/{id}       (app/api/callback.py)                   *)
(*   DELETE /api/executions/{id}   (app/api/executions.py)                 *)
(*   DELETE /api/admin/executions/{id} (app/api/admin.py)                  *)
(*   DELETE /api/workflows/{id}, /api/admin/workflows/{id}                 *)
(*   replace_placeholders          (app/api/workflows.py)                  *)
(*   ComfyUIService.execute_workflow, _monitor_execution                   *)
(*                                 (app/services/comfyui_service.py)       *)
(* over the executions and assets tables.  Every handler owns a SQLAlchemy *)
(* session (get_db); handlers share nothing but the database, so a step of *)
(* the model is one database round trip (a query, or a commit with the     *)
(* flush it carries) or one call to the external engine.                   *)
(***************************************************************************)
EXTENDS Integers, FiniteSets, Sequences, TLC

\* ------------------------------------------------------------------ bounds
\* callback deliveries, and image URLs in one delivery
MaxCallbacks == 2
MaxImages == 1

\* the requests in flight: one Execute (executions are independent rows),
\* MaxCallbacks callbacks, one delete
ExecReqs == {1}
CbReqs == 1..MaxCallbacks
DelReqs == {1}
\* ids a request may name: the ids the table can hold, and one it never holds
UnknownId == {2}
ExecIds == ExecReqs \cup UnknownId

\* ------------------------------------------------------------- data model
\* a nullable column holds <<>> (NULL) or <<v>>
NULL == <<>>
Some(v) == <<v>>

Terminal == {"completed", "failed", "timeout"}
NonTerminal == {"pending", "running"}

\* users: 1 is an ordinary user and owns workflows 1 and 2, 2 is the admin,
\* 3 is an ordinary user who owns nothing
Users == {1, 2}
Requesters == Users \cup {3}
Role(u) == IF u = 2 THEN "admin" ELSE "user"

\* workflows: 1 is OPEN, 2 is WAIT, 3 does not exist
WorkflowIds == {1, 2}
UnknownWorkflow == {3}
WorkflowStatus(w) == IF w = 2 THEN "WAIT" ELSE "OPEN"

\* Execution(...) as the Execute handler inserts it
NewExecutionRunning(w, u) ==
    [workflow_id |-> w, user_id |-> u, status |-> "running",
     comfyui_prompt_id |-> NULL, output_data |-> NULL,
     error_message |-> NULL, completed_at |-> NULL]

NewExecution(w, u) ==
    [workflow_id |-> w, user_id |-> u, status |-> "pending",
     comfyui_prompt_id |-> NULL, output_data |-> NULL,
     error_message |-> NULL, completed_at |-> NULL]

\* a session that holds no Execution
Unloaded ==
    [workflow_id |-> 0, user_id |-> 0, status |-> "unloaded",
     comfyui_prompt_id |-> NULL, output_data |-> NULL,
     error_message |-> NULL, completed_at |-> NULL]

\* ------------------------------------------------- Python values and text
\* A str is the sequence of its characters.  The texts of the model are
\* written with letters, digits, the space, the newline and the characters
\* " { } : , . + - ; they hold no backslash and no exponent, inf or nan
\* numeral.
Q == "\""
Digits == <<"0", "1", "2", "3", "4", "5", "6", "7", "8", "9">>
IsDigit(c) == \E d \in DOMAIN Digits : Digits[d] = c
DigitVal(c) == (CHOOSE d \in DOMAIN Digits : Digits[d] = c) - 1
Whitespace == {" ", "\n", "\t", "\r"}

\* the values a JSON body carries: None, str, int, bool and float; a float
\* is the decimal n / 10^k with no trailing zero in its fraction
RECURSIVE Normal(_, _)
Normal(n, k) ==
    IF k > 0 /\ n % 10 = 0 THEN Normal(n \div 10, k - 1) ELSE <<n, k>>

PyNone == [t |-> "NoneType", s |-> <<>>, n |-> 0, k |-> 0]
PyStr(s) == [t |-> "str", s |-> s, n |-> 0, k |-> 0]
PyInt(n) == [t |-> "int", s |-> <<>>, n |-> n, k |-> 0]
PyBool(b) == [t |-> "bool", s |-> <<>>, n |-> IF b THEN 1 ELSE 0, k |-> 0]
PyFloat(n, k) ==
    [t |-> "float", s |-> <<>>, n |-> Normal(n, k)[1], k |-> Normal(n, k)[2]]

RECURSIVE Pow10(_)
Pow10(k) == IF k = 0 THEN 1 ELSE 10 * Pow10(k - 1)

Abs(n) == IF n < 0 THEN 0 - n ELSE n

\* str(n) of an int
RECURSIVE NatStr(_)
NatStr(n) ==
    IF n < 10 THEN <<Digits[n + 1]>>
    ELSE NatStr(n \div 10) \o <<Digits[(n % 10) + 1]>>

IntStr(n) == IF n < 0 THEN <<"-">> \o NatStr(0 - n) ELSE NatStr(n)

\* the k digits of a fraction f < 10^k
RECURSIVE FracStr(_, _)
FracStr(f, k) ==
    IF k = 0 THEN <<>>
    ELSE FracStr(f \div 10, k - 1) \o <<Digits[(f % 10) + 1]>>

\* repr of a float: 42.0, 1.5, -0.25
FloatStr(n, k) ==
    (IF n < 0 THEN <<"-">> ELSE <<>>)
        \o NatStr(Abs(n) \div Pow10(k)) \o <<".">>
        \o (IF k = 0 THEN <<"0">> ELSE FracStr(Abs(n) % Pow10(k), k))

\* str(value)
Str(v) ==
    CASE v.t = "str" -> v.s
      [] v.t = "int" -> IntStr(v.n)
      [] v.t = "float" -> FloatStr(v.n, v.k)
      [] v.t = "bool" -> IF v.n = 1 THEN <<"T", "r", "u", "e">>
                         ELSE <<"F", "a", "l", "s", "e">>
      [] v.t = "NoneType" -> <<"N", "o", "n", "e">>

\* bool(value), as `if value` reads it
Truthy(v) ==
    CASE v.t = "str" -> v.s # <<>>
      [] v.t \in {"int", "float", "bool"} -> v.n # 0
      [] v.t = "NoneType" -> FALSE

\* str.strip()
RECURSIVE LStrip(_)
LStrip(s) == IF s # <<>> /\ s[1] \in Whitespace THEN LStrip(Tail(s)) ELSE s

RECURSIVE RStrip(_)
RStrip(s) ==
    IF s # <<>> /\ s[Len(s)] \in Whitespace
    THEN RStrip(SubSeq(s, 1, Len(s) - 1)) ELSE s

Strip(s) == RStrip(LStrip(s))

AllDigits(s) == \A i \in DOMAIN s : IsDigit(s[i])

RECURSIVE NatVal(_)
NatVal(s) ==
    IF s = <<>> THEN 0
    ELSE 10 * NatVal(SubSeq(s, 1, Len(s) - 1)) + DigitVal(s[Len(s)])

Signed(s) == s # <<>> /\ s[1] \in {"+", "-"}
Unsigned(s) == IF Signed(s) THEN Tail(s) ELSE s
Sign(s) == IF s # <<>> /\ s[1] = "-" THEN 0 - 1 ELSE 1

\* the strings int() accepts: blanks, a sign, one or more digits
IntLiteral(s) ==
    /\ Unsigned(Strip(s)) # <<>>
    /\ AllDigits(Unsigned(Strip(s)))

\* the strings float() accepts: blanks, a sign, digits with at most one
\* point and at least one digit
DotAt(s) ==
    IF \E i \in DOMAIN s : s[i] = "."
    THEN CHOOSE i \in DOMAIN s : s[i] = "." /\ \A j \in 1..(i - 1) : s[j] # "."
    ELSE Len(s) + 1

IntPart(s) == SubSeq(s, 1, DotAt(s) - 1)
FracPart(s) == SubSeq(s, DotAt(s) + 1, Len(s))

FloatLiteral(s) ==
    LET u == Unsigned(Strip(s)) IN
    /\ AllDigits(IntPart(u))
    /\ AllDigits(FracPart(u))
    /\ IntPart(u) \o FracPart(u) # <<>>

\* int(value): [ok, n]; not ok is ValueError or TypeError
PyIntOf(v) ==
    CASE v.t = "str" ->
            IF IntLiteral(v.s)
            THEN [ok |-> TRUE,
                  n |-> Sign(Strip(v.s)) * NatVal(Unsigned(Strip(v.s)))]
            ELSE [ok |-> FALSE, n |-> 0]
      [] v.t \in {"int", "bool"} -> [ok |-> TRUE, n |-> v.n]
      [] v.t = "float" ->
            \* truncation toward zero
            [ok |-> TRUE,
             n |-> (IF v.n < 0 THEN 0 - 1 ELSE 1) * (Abs(v.n) \div Pow10(v.k))]
      [] v.t = "NoneType" -> [ok |-> FALSE, n |-> 0]

\* float(value): [ok, n, k]
PyFloatOf(v) ==
    CASE v.t = "str" ->
            IF FloatLiteral(v.s)
            THEN LET u == Unsigned(Strip(v.s)) IN
                 [ok |-> TRUE,
                  n |-> Sign(Strip(v.s)) * NatVal(IntPart(u) \o FracPart(u)),
                  k |-> Len(FracPart(u))]
            ELSE [ok |-> FALSE, n |-> 0, k |-> 0]
      [] v.t \in {"int", "bool"} -> [ok |-> TRUE, n |-> v.n, k |-> 0]
      [] v.t = "float" -> [ok |-> TRUE, n |-> v.n, k |-> v.k]
      [] v.t = "NoneType" -> [ok |-> FALSE, n |-> 0, k |-> 0]

\* ----------------------------------------------------- json.dumps, loads
\* A workflow_data document is a sequence of members <<key, value>>, in
\* the order the dict holds them; the strings of a document hold no
\* character json.dumps escapes.
JsonStr(s) == <<Q>> \o s \o <<Q>>

JsonValue(v) ==
    CASE v.t = "str" -> JsonStr(v.s)
      [] v.t = "int" -> IntStr(v.n)
      [] v.t = "float" -> FloatStr(v.n, v.k)
      [] v.t = "bool" -> IF v.n = 1 THEN <<"t", "r", "u", "e">>
                         ELSE <<"f", "a", "l", "s", "e">>
      [] v.t = "NoneType" -> <<"n", "u", "l", "l">>

RECURSIVE JsonMembers(_)
JsonMembers(doc) ==
    IF doc = <<>> THEN <<>>
    ELSE JsonStr(doc[1][1]) \o <<":", " ">> \o JsonValue(doc[1][2])
             \o (IF Len(doc) > 1 THEN <<",", " ">> \o JsonMembers(Tail(doc))
                 ELSE <<>>)

\* json.dumps(workflow_data, ensure_ascii=False)
dumps(doc) == <<"{">> \o JsonMembers(doc) \o <<"}">>

\* a scan answers [ok, v, i]: the value read and the index after it
ScanFail == [ok |-> FALSE, v |-> PyNone, i |-> 0]

RECURSIVE SkipWs(_, _)
SkipWs(t, i) ==
    IF i <= Len(t) /\ t[i] \in Whitespace THEN SkipWs(t, i + 1) ELSE i

\* the string whose opening quote is before index i: it ends at the next
\* quote, and a control character inside it is an error
RECURSIVE ScanString(_, _, _)
ScanString(t, i, acc) ==
    IF i > Len(t) THEN ScanFail
    ELSE IF t[i] = Q THEN [ok |-> TRUE, v |-> PyStr(acc), i |-> i + 1]
    ELSE IF t[i] \in {"\n", "\t", "\r"} THEN ScanFail
    ELSE ScanString(t, i + 1, Append(acc, t[i]))

RECURSIVE ScanDigits(_, _)
ScanDigits(t, i) ==
    IF i <= Len(t) /\ IsDigit(t[i]) THEN ScanDigits(t, i + 1) ELSE i

\* the number at index i: -?(0|[1-9][0-9]*)(\.[0-9]+)?
ScanNumber(t, i) ==
    LET a == IF t[i] = "-" THEN i + 1 ELSE i
        b == IF a <= Len(t) /\ t[a] = "0" THEN a + 1 ELSE ScanDigits(t, a)
        frac == b + 1 <= Len(t) /\ t[b] = "." /\ IsDigit(t[b + 1])
        c == IF frac THEN ScanDigits(t, b + 1) ELSE b
        sign == IF t[i] = "-" THEN 0 - 1 ELSE 1
    IN  IF b = a THEN ScanFail
        ELSE IF frac
        THEN [ok |-> TRUE,
              v |-> PyFloat(sign * NatVal(SubSeq(t, a, b - 1)
                                              \o SubSeq(t, b + 1, c - 1)),
                            c - b - 1),
              i |-> c]
        ELSE [ok |-> TRUE, v |-> PyInt(sign * NatVal(SubSeq(t, a, b - 1))),
              i |-> b]

StartsWith(t, i, w) ==
    i + Len(w) - 1 <= Len(t) /\ SubSeq(t, i, i + Len(w) - 1) = w

\* a member's value: a string, a number, true, false or null
ScanValue(t, i) ==
    IF i > Len(t) THEN ScanFail
    ELSE IF t[i] = Q THEN ScanString(t, i + 1, <<>>)
    ELSE IF t[i] = "-" \/ IsDigit(t[i]) THEN ScanNumber(t, i)
    ELSE IF StartsWith(t, i, <<"t", "r", "u", "e">>)
    THEN [ok |-> TRUE, v |-> PyBool(TRUE), i |-> i + 4]
    ELSE IF StartsWith(t, i, <<"f", "a", "l", "s", "e">>)
    THEN [ok |-> TRUE, v |-> PyBool(FALSE), i |-> i + 5]
    ELSE IF StartsWith(t, i, <<"n", "u", "l", "l">>)
    THEN [ok |-> TRUE, v |-> PyNone, i |-> i + 4]
    ELSE ScanFail

\* the members from the key at index i to the closing brace; a repeated
\* key keeps its last value
RECURSIVE ScanMembers(_, _, _)
ScanMembers(t, i, acc) ==
    IF i > Len(t) \/ t[i] # Q THEN ScanFail
    ELSE LET key == ScanString(t, i + 1, <<>>)
             colon == SkipWs(t, key.i)
             value == ScanValue(t, SkipWs(t, colon + 1))
             next == SkipWs(t, value.i)
             dict == [x \in DOMAIN acc \cup {key.v.s} |->
                         IF x = key.v.s THEN value.v ELSE acc[x]]
         IN  IF ~key.ok THEN ScanFail
             ELSE IF colon > Len(t) \/ t[colon] # ":" THEN ScanFail
             ELSE IF ~value.ok THEN ScanFail
             ELSE IF next > Len(t) THEN ScanFail
             ELSE IF t[next] = "}"
             THEN [ok |-> TRUE, v |-> dict, i |-> next + 1]
             ELSE IF t[next] = ","
             THEN ScanMembers(t, SkipWs(t, next + 1), dict)
             ELSE ScanFail

ScanObject(t) ==
    LET open == SkipWs(t, 1)
        first == SkipWs(t, open + 1)
    IN  IF open > Len(t) \/ t[open] # "{" THEN ScanFail
        ELSE IF first <= Len(t) /\ t[first] = "}"
        THEN [ok |-> TRUE, v |-> <<>>, i |-> first + 1]
        ELSE ScanMembers(t, first, <<>>)

\* json.loads(text): [ok, doc]; not ok is json.JSONDecodeError (text after
\* the object is "Extra data")
loads(t) ==
    LET r == ScanObject(t) IN
    IF r.ok /\ SkipWs(t, r.i) = Len(t) + 1
    THEN [ok |-> TRUE, doc |-> r.v]
    ELSE [ok |-> FALSE, doc |-> <<>>]

\* ------------------------------------------------- replace_placeholders
\* str.replace(old, new): every occurrence, left to right, not overlapping
RECURSIVE Interleave(_, _)
Interleave(t, new) ==
    IF t = <<>> THEN new ELSE new \o <<t[1]>> \o Interleave(Tail(t), new)

RECURSIVE replace(_, _, _)
replace(t, old, new) ==
    IF old = <<>> THEN Interleave(t, new)
    ELSE IF Len(t) < Len(old) THEN t
    ELSE IF SubSeq(t, 1, Len(old)) = old
    THEN new \o replace(SubSeq(t, Len(old) + 1, Len(t)), old, new)
    ELSE <<t[1]>> \o replace(Tail(t), old, new)

\* dict.get(key, default)
Get(d, key, default) == IF key \in DOMAIN d THEN d[key] ELSE default

\* int(value) if value else 0, and 0 on ValueError or TypeError
CoerceNumberKeep(value) ==
    IF Truthy(value) /\ PyIntOf(value).ok THEN PyInt(PyIntOf(value).n)
    ELSE value

CoerceNumber(value) ==
    IF Truthy(value) /\ PyIntOf(value).ok THEN PyInt(PyIntOf(value).n)
    ELSE PyInt(0)

\* float(value) if value else 0.0, and 0.0 on ValueError or TypeError
CoerceFloat(value) ==
    IF Truthy(value) /\ PyFloatOf(value).ok
    THEN PyFloat(PyFloatOf(value).n, PyFloatOf(value).k)
    ELSE PyFloat(0, 0)

\* str(value) if value is not None else ''
CoerceText(value) ==
    IF value = PyNone THEN PyStr(<<>>) ELSE PyStr(Str(value))

Coerce(field_type, value) ==
    CASE field_type = "number" -> CoerceNumber(value)
      [] field_type = "float" -> CoerceFloat(value)
      [] field_type \in {"text", "textarea", "select"} -> CoerceText(value)
      [] OTHER -> value

\* the value of one field: the request's if the key is present, else the
\* field's defaultValue, else ''
Resolve(placeholder, field_config, input_values) ==
    Get(input_values, placeholder,
        Get(field_config, "defaultValue", PyStr(<<>>)))

\* one turn of the loop: the text after the field's replacement
ReplaceFieldQuoted(text, placeholder, field_config, input_values) ==
    LET field_type == Get(field_config, "type", "text")
        value == Coerce(field_type,
                        Resolve(placeholder, field_config, input_values))
    IN  replace(text, placeholder, Str(value))

ReplaceField(text, placeholder, field_config, input_values) ==
    LET field_type == Get(field_config, "type", "text")
        value == Coerce(field_type,
                        Resolve(placeholder, field_config, input_values))
    IN  IF field_type \in {"number", "float"}
        THEN replace(text, JsonStr(placeholder), Str(value))
        ELSE replace(text, placeholder, Str(value))

\* a loop that ends after its first turn
ReplaceFieldsFirstOnly(text, field_configs, input_values) ==
    IF field_configs = <<>> THEN text
    ELSE ReplaceField(text, field_configs[1][1], field_configs[1][2],
                      input_values)

\* field_configs is the sequence of items <<placeholder, field_config>> of
\* the dict, in its order
RECURSIVE ReplaceFields(_, _, _)
ReplaceFields(text, field_configs, input_values) ==
    IF field_configs = <<>> THEN text
    ELSE ReplaceFields(
             ReplaceField(text, field_configs[1][1], field_configs[1][2],
                          input_values),
             Tail(field_configs), input_values)

\* [ok, doc]; not ok is HTTPException(400, "Failed to process workflow data")
replace_placeholders(workflow_data, field_configs, input_values) ==
    loads(ReplaceFields(dumps(workflow_data), field_configs, input_values))

\* ----------------------------------------------------- stored workflows
\* workflows 1 and 2 hold the document {"seed": "SEED_PLACEHOLDER",
\* "prompt": "PROMPT_PLACEHOLDER"} with a number field and a text field
SEED_PLACEHOLDER ==
    <<"S", "E", "E", "D", "_", "P", "L", "A", "C", "E", "H", "O", "L", "D",
      "E", "R">>
PROMPT_PLACEHOLDER ==
    <<"P", "R", "O", "M", "P", "T", "_", "P", "L", "A", "C", "E", "H", "O",
      "L", "D", "E", "R">>

ExampleData ==
    << << <<"s", "e", "e", "d">>, PyStr(SEED_PLACEHOLDER) >>,
       << <<"p", "r", "o", "m", "p", "t">>, PyStr(PROMPT_PLACEHOLDER) >> >>

ExampleFields ==
    << <<SEED_PLACEHOLDER, [type |-> "number", defaultValue |-> PyInt(0)]>>,
       <<PROMPT_PLACEHOLDER, [type |-> "text", defaultValue |-> PyStr(<<>>)]>> >>

\* workflow 4 holds {"cfg": "CFG", "text": "photo of SUBJECT", "steps": 20}
\* with a float field that names no defaultValue and a field that names no
\* type
CFG == <<"C", "F", "G">>
SUBJECT == <<"S", "U", "B", "J", "E", "C", "T">>

SamplerData ==
    << << <<"c", "f", "g">>, PyStr(CFG) >>,
       << <<"t", "e", "x", "t">>,
          PyStr(<<"p", "h", "o", "t", "o", " ", "o", "f", " ">> \o SUBJECT) >>,
       << <<"s", "t", "e", "p", "s">>, PyInt(20) >> >>

SamplerFields ==
    << <<CFG, [type |-> "float"]>>,
       <<SUBJECT, [defaultValue |-> PyStr(<<"c", "a", "t">>)]>> >>

SamplerWorkflow == {4}
WorkflowOwner(w) == IF w \in SamplerWorkflow THEN 2 ELSE 1

StoredWorkflow(w) ==
    [status |-> WorkflowStatus(w), user_id |-> WorkflowOwner(w),
     workflow_data |-> IF w \in SamplerWorkflow THEN SamplerData
                       ELSE ExampleData,
     input_fields |-> IF w \in SamplerWorkflow THEN SamplerFields
                      ELSE ExampleFields]

\* a workflow whose document is {} and that has no input field
PlainWorkflow(w) ==
    [StoredWorkflow(w) EXCEPT !.workflow_data = <<>>, !.input_fields = <<>>]

\* the placeholders of a stored workflow
Placeholders(w) ==
    {StoredWorkflow(w).input_fields[i][1] :
         i \in DOMAIN StoredWorkflow(w).input_fields}

\* the raw values a request may give a field
RawValues ==
    {PyNone, PyStr(<<>>), PyStr(<<"a", "b", "c">>), PyStr(<<"4", "2">>),
     PyStr(<<" ", "-", "7", " ">>), PyStr(<<"4", ".", "5">>), PyInt(42),
     PyInt(0), PyFloat(45, 1), PyStr(<<"a", Q, "b">>)}

\* the input_values of a request for workflow w: any of its placeholders,
\* each with a raw value
RequestInputs(w) ==
    IF w \in WorkflowIds \cup SamplerWorkflow
    THEN UNION {[S -> RawValues] : S \in SUBSET Placeholders(w)}
    ELSE {<<>>}

\* a request that names no input value
NoInputs == <<>>

VARIABLES
    executions,   \* the executions table: id -> row
    assets,       \* the assets table: a set of rows [id, execution_id, image_url]
    ex,           \* Execute requests
    cb,           \* Callback requests
    del,          \* delete requests
    workflows,    \* the workflows table: id -> row
    mon           \* a call of ComfyUIService._monitor_execution

vars == <<executions, assets, ex, cb, del, workflows, mon>>

\* a document no substitution has produced
Unprocessed == [ok |-> FALSE, doc |-> <<>>]

ExIdle ==
    [pc |-> "idle", wf |-> 0, user |-> 0, input |-> NoInputs, id |-> 0,
     loaded |-> Unloaded, processed |-> Unprocessed, called |-> FALSE,
     result |-> "none", error |-> "", prompt_id |-> NULL, resp |-> 0,
     respStatus |-> "none", detail |-> ""]

CbIdle ==
    [pc |-> "idle", id |-> 0, k |-> 0, loaded |-> Unloaded, fault |-> FALSE,
     resp |-> 0, images_count |-> 0, assets_added |-> 0]

DelIdle ==
    [pc |-> "idle", kind |-> "none", id |-> 0, rows |-> {},
     seen |-> {}, resp |-> 0]

\* the result dict of _monitor_execution before any callback has run: {}
NoResult ==
    [status |-> "absent", payload |-> "absent", type |-> "absent",
     error |-> "absent", prompt_id |-> FALSE]

\* no call of _monitor_execution has been made
MonIdle ==
    [pc |-> "idle", thread |-> "idle", event |-> FALSE, closed |-> FALSE,
     result |-> NoResult, output |-> "none", received |-> 0, seen |-> {},
     expired |-> FALSE, seenInWait |-> {}]

\* the requests before any has arrived
Idle ==
    /\ ex = [e \in ExecReqs |-> ExIdle]
    /\ cb = [c \in CbReqs |-> CbIdle]
    /\ del = [d \in DelReqs |-> DelIdle]
    /\ mon = MonIdle

Init ==
    /\ executions = <<>>
    /\ assets = {}
    /\ workflows = [w \in WorkflowIds |-> PlainWorkflow(w)]
    /\ Idle

\* ------------------------------------------------------ the ORM session
\* Session.commit() flushes an UPDATE that sets the columns whose assigned
\* value differs from the value the session loaded; the other columns of the
\* stored row are not written.
FlushAll(row, loaded, assigned) ==
    [c \in DOMAIN row |->
        IF c \in DOMAIN assigned THEN assigned[c] ELSE loaded[c]]

Flush(row, loaded, assigned) ==
    [c \in DOMAIN row |->
        IF c \in DOMAIN assigned /\ assigned[c] # loaded[c]
        THEN assigned[c] ELSE row[c]]

Exists(id) == id \in DOMAIN executions

\* datetime.now() as request n of the given kind reads it: every request
\* reads the clock in one place only, so the request names the instant
Now(kind, n) == <<kind, n>>

AssetsOf(id) == {a \in assets : a.execution_id = id}

\* ------------------------------------------------- POST /workflows/execute
\* the result dict ComfyUIService.execute_workflow returns when the engine
\* accepted the job of request e; the engine's job id is fresh, and is named
\* here by the request it answers
ServiceResultTimeout(e) ==
    [status |-> "timeout", prompt_id |-> Some(e)]

ServiceResultCompleted(e) ==
    [status |-> "completed", prompt_id |-> Some(e)]

ServiceResult(e) ==
    [status |-> "pending", prompt_id |-> Some(e)]

\* the attributes the handler assigns after a successful dispatch
ExecuteResultAssigned(result, now) ==
    [status |-> result.status, output_data |-> Some("result"),
     completed_at |-> Some(now), comfyui_prompt_id |-> result.prompt_id]

\* the attributes the handler assigns in its except branch
ExecuteFailedAssignedNoStatus(error, now) ==
    [error_message |-> Some(error), completed_at |-> Some(now)]

ExecuteFailedAssigned(error, now) ==
    [status |-> "failed", error_message |-> Some(error),
     completed_at |-> Some(now)]

\* str(e) of the exception the except branch catches.  The service raises
\* Exception("ComfyUI API ..."); replace_placeholders raises
\* HTTPException(status_code=400, detail=...), whose str() is '' where
\* Starlette defines no __str__ for it, and "400: <detail>" where it does.
ServiceErrorStr == {"ComfyUI API call failed"}
HTTPExceptionStr ==
    {"", "400: Failed to process workflow data: JSONDecodeError"}

\* an exception nothing catches: the framework answers 500
Unhandled(r) ==
    [r EXCEPT !.pc = "done", !.resp = 500, !.detail = "Internal Server Error",
              !.loaded = Unloaded]

\* an Execute that does not look the workflow up
ExecuteBeginUnchecked(e, w, u, input_values) ==
    /\ ex[e].pc = "idle"
    /\ executions' = executions @@ (e :> NewExecution(w, u))
    /\ ex' = [ex EXCEPT ![e] = [@ EXCEPT !.wf = w, !.user = u,
                  !.input = input_values, !.pc = "created", !.id = e]]
    /\ UNCHANGED <<assets, cb, del, workflows, mon>>

\* query the workflow, check it, insert the Execution and commit; the id the
\* sequence gives the row is fresh, and is named here by the request
ExecuteBegin(e, w, u, input_values) ==
    /\ ex[e].pc = "idle"
    /\ LET r == [ex[e] EXCEPT !.wf = w, !.user = u, !.input = input_values] IN
       IF w \notin DOMAIN workflows
       THEN /\ ex' = [ex EXCEPT ![e] = [r EXCEPT !.pc = "done", !.resp = 404,
                          !.detail = "Workflow not found"]]
            /\ UNCHANGED executions
       ELSE IF workflows[w].status # "OPEN"
       THEN \* workflow.role: Workflow has no such attribute
            /\ ex' = [ex EXCEPT ![e] = Unhandled(r)]
            /\ UNCHANGED executions
       ELSE /\ executions' = executions @@ (e :> NewExecution(w, u))
            /\ ex' = [ex EXCEPT ![e] = [r EXCEPT !.pc = "created", !.id = e]]
    /\ UNCHANGED <<assets, cb, del, workflows, mon>>

\* db.refresh(new_execution)
ExecuteRefresh(e) ==
    /\ ex[e].pc = "created"
    /\ IF Exists(ex[e].id)
       THEN ex' = [ex EXCEPT ![e] = [@ EXCEPT !.pc = "refreshed",
                       !.loaded = executions[ex[e].id]]]
       ELSE ex' = [ex EXCEPT ![e] = Unhandled(@)]
    /\ UNCHANGED <<executions, assets, cb, del, workflows, mon>>

\* the body of the try up to the service's answer.  The commit expired
\* `workflow`, so reading workflow.workflow_data loads the row again
\* (ObjectDeletedError if it is gone).  replace_placeholders raises when the
\* text does not parse, and the service is then never called; otherwise
\* ComfyUIService.execute_workflow posts the document, and the engine
\* accepts the job and assigns it an id, or the call raises.
Raised(r, error) ==
    [r EXCEPT !.pc = "dispatched", !.result = "raised", !.error = error]

ExecuteDispatch(e) ==
    /\ ex[e].pc = "refreshed"
    /\ IF ex[e].wf \notin DOMAIN workflows
       THEN ex' = [ex EXCEPT ![e] = Raised(@, "ObjectDeletedError")]
       ELSE LET processed_workflow_data ==
                    replace_placeholders(workflows[ex[e].wf].workflow_data,
                                         workflows[ex[e].wf].input_fields,
                                         ex[e].input)
                r == [ex[e] EXCEPT !.processed = processed_workflow_data]
            IN  IF ~processed_workflow_data.ok
                THEN \E error \in HTTPExceptionStr :
                         ex' = [ex EXCEPT ![e] = Raised(r, error)]
                ELSE \/ ex' = [ex EXCEPT ![e] = [r EXCEPT !.pc = "dispatched",
                                  !.called = TRUE,
                                  !.result = ServiceResult(e).status,
                                  !.prompt_id = ServiceResult(e).prompt_id]]
                     \/ \E error \in ServiceErrorStr :
                            ex' = [ex EXCEPT ![e] =
                                      Raised([r EXCEPT !.called = TRUE], error)]
    /\ UNCHANGED <<executions, assets, cb, del, workflows, mon>>

ExecuteCommitResultStoring(e) ==
    /\ ex[e].pc = "dispatched"
    /\ ex[e].result # "raised"
    /\ IF Exists(ex[e].id)
       THEN /\ executions' = [executions EXCEPT ![ex[e].id] =
                   Flush(@, ex[e].loaded,
                         ExecuteResultAssigned(
                             [status |-> ex[e].result,
                              prompt_id |-> ex[e].prompt_id], Now("execute", e)))]
            /\ ex' = [ex EXCEPT ![e] = [@ EXCEPT !.pc = "written"]]
       ELSE /\ ex' = [ex EXCEPT ![e] = Unhandled(@)]
            /\ UNCHANGED executions
    /\ workflows' = IF ex[e].wf \in DOMAIN workflows
                    THEN [workflows EXCEPT ![ex[e].wf].workflow_data = <<>>]
                    ELSE workflows
    /\ UNCHANGED <<assets, cb, del, mon>>

\* the commit after a successful dispatch
ExecuteCommitResult(e) ==
    /\ ex[e].pc = "dispatched"
    /\ ex[e].result # "raised"
    /\ IF Exists(ex[e].id)
       THEN /\ executions' = [executions EXCEPT ![ex[e].id] =
                   Flush(@, ex[e].loaded,
                         ExecuteResultAssigned(
                             [status |-> ex[e].result,
                              prompt_id |-> ex[e].prompt_id], Now("execute", e)))]
            /\ ex' = [ex EXCEPT ![e] = [@ EXCEPT !.pc = "written"]]
       ELSE \* StaleDataError; the except branch's commit raises again
            /\ ex' = [ex EXCEPT ![e] = Unhandled(@)]
            /\ UNCHANGED executions
    /\ UNCHANGED <<assets, cb, del, workflows, mon>>

\* the except branch after a failed dispatch
ExecuteCommitFailed(e) ==
    /\ ex[e].pc = "dispatched"
    /\ ex[e].result = "raised"
    /\ IF Exists(ex[e].id)
       THEN /\ executions' = [executions EXCEPT ![ex[e].id] =
                   Flush(@, ex[e].loaded,
                         ExecuteFailedAssigned(ex[e].error, Now("execute", e)))]
            /\ ex' = [ex EXCEPT ![e] = [@ EXCEPT !.pc = "done", !.resp = 500,
                          !.detail = "Workflow execution failed: " \o ex[e].error,
                          !.loaded = Unloaded]]
       ELSE /\ ex' = [ex EXCEPT ![e] = Unhandled(@)]
            /\ UNCHANGED executions
    /\ UNCHANGED <<assets, cb, del, workflows, mon>>

\* the response body: new_execution.status is read again after the commit
\* expired the instance
ExecuteRespond(e) ==
    /\ ex[e].pc = "written"
    /\ IF Exists(ex[e].id)
       THEN ex' = [ex EXCEPT ![e] = [@ EXCEPT !.pc = "done", !.resp = 200,
                       !.respStatus = executions[ex[e].id].status,
                       !.loaded = Unloaded]]
       ELSE ex' = [ex EXCEPT ![e] = Unhandled(@)]
    /\ UNCHANGED <<executions, assets, cb, del, workflows, mon>>

\* --------------------------------------------------- POST /callback/{id}
\* the attributes the handler assigns
CallbackAssigned(now) ==
    [status |-> "completed", completed_at |-> Some(now)]

\* one Asset per element of request.images; the id the sequence gives a row
\* is fresh, and is named here by the request and the element
NewAssets(c, id, k) ==
    {[id |-> <<c, i>>, execution_id |-> id, image_url |-> i] : i \in 1..k}

\* the query of the execution; a missing row is answered 404
CallbackQuerySilent(c, id, k) ==
    /\ cb[c].pc = "idle"
    /\ IF Exists(id)
       THEN cb' = [cb EXCEPT ![c] = [@ EXCEPT !.pc = "found", !.id = id,
                       !.k = k, !.loaded = executions[id]]]
       ELSE cb' = [cb EXCEPT ![c] = [@ EXCEPT !.pc = "done", !.id = id,
                       !.k = k, !.resp = 200]]
    /\ UNCHANGED <<executions, assets, ex, del, workflows, mon>>

CallbackQuery(c, id, k) ==
    /\ cb[c].pc = "idle"
    /\ IF Exists(id)
       THEN cb' = [cb EXCEPT ![c] = [@ EXCEPT !.pc = "found", !.id = id,
                       !.k = k, !.loaded = executions[id]]]
       ELSE cb' = [cb EXCEPT ![c] = [@ EXCEPT !.pc = "done", !.id = id,
                       !.k = k, !.resp = 404]]
    /\ UNCHANGED <<executions, assets, ex, del, workflows, mon>>

\* db.commit() succeeds: the UPDATE and the INSERTs are stored together
CallbackApplyDedup(c) ==
    /\ executions' = [executions EXCEPT ![cb[c].id] =
           Flush(@, cb[c].loaded, CallbackAssigned(Now("callback", c)))]
    /\ assets' = IF AssetsOf(cb[c].id) = {}
                 THEN assets \cup NewAssets(c, cb[c].id, cb[c].k)
                 ELSE assets
    /\ cb' = [cb EXCEPT ![c] = [@ EXCEPT !.pc = "done", !.resp = 200,
                  !.images_count = cb[c].k, !.assets_added = cb[c].k,
                  !.loaded = Unloaded]]

CallbackApplyRefusing(c) ==
    IF cb[c].loaded.status \in Terminal
    THEN /\ cb' = [cb EXCEPT ![c] = [@ EXCEPT !.pc = "done", !.resp = 409,
                       !.loaded = Unloaded]]
         /\ UNCHANGED <<executions, assets>>
    ELSE /\ executions' = [executions EXCEPT ![cb[c].id] =
                Flush(@, cb[c].loaded, CallbackAssigned(Now("callback", c)))]
         /\ assets' = assets \cup NewAssets(c, cb[c].id, cb[c].k)
         /\ cb' = [cb EXCEPT ![c] = [@ EXCEPT !.pc = "done", !.resp = 200,
                       !.images_count = cb[c].k, !.assets_added = cb[c].k,
                       !.loaded = Unloaded]]

CallbackApply(c) ==
    /\ executions' = [executions EXCEPT ![cb[c].id] =
           Flush(@, cb[c].loaded, CallbackAssigned(Now("callback", c)))]
    /\ assets' = assets \cup NewAssets(c, cb[c].id, cb[c].k)
    /\ cb' = [cb EXCEPT ![c] = [@ EXCEPT !.pc = "done", !.resp = 200,
                  !.images_count = cb[c].k, !.assets_added = cb[c].k,
                  !.loaded = Unloaded]]

\* db.commit() raises: db.rollback(), then HTTPException(500)
CallbackRollbackPartial(c) ==
    /\ cb' = [cb EXCEPT ![c] = [@ EXCEPT !.pc = "done", !.resp = 500,
                  !.fault = TRUE, !.loaded = Unloaded]]
    /\ executions' = IF Exists(cb[c].id)
                     THEN [executions EXCEPT ![cb[c].id] =
                              Flush(@, cb[c].loaded,
                                    CallbackAssigned(Now("callback", c)))]
                     ELSE executions
    /\ UNCHANGED assets

CallbackRollback(c) ==
    /\ cb' = [cb EXCEPT ![c] = [@ EXCEPT !.pc = "done", !.resp = 500,
                  !.fault = TRUE, !.loaded = Unloaded]]
    /\ UNCHANGED <<executions, assets>>

\* the assignments, the db.add of every Asset and the commit; the commit
\* fails when the store fails or when the row is gone (StaleDataError)
CallbackCommit(c) ==
    /\ cb[c].pc = "found"
    /\ \/ Exists(cb[c].id) /\ CallbackApply(c)
       \/ CallbackRollback(c)
    /\ UNCHANGED <<ex, del, workflows, mon>>

\* ---------------------- DELETE /executions/{id}, /admin/executions/{id}
ExecutionsOf(w) == {id \in DOMAIN executions : executions[id].workflow_id = w}

\* db.delete(obj) marks the object and what the cascades reach: the session
\* loads Workflow.executions and Execution.assets as they are stored.  (The
\* user's endpoint first deletes the stored assets of the execution in bulk,
\* inside its transaction: the same rows.)
Marked(r, rows) ==
    [r EXCEPT !.pc = "marked", !.rows = rows,
              !.seen = {a \in assets : a.execution_id \in rows}]

\* the query, the checks and the marking, up to the commit
DeleteQueryUnguarded(d, kind, u, id) ==
    /\ del[d].pc = "idle"
    /\ kind = "admin" => Role(u) = "admin"
    /\ LET r == [del[d] EXCEPT !.kind = kind, !.id = id] IN
       IF ~Exists(id)
       THEN del' = [del EXCEPT ![d] = [r EXCEPT !.pc = "done", !.resp = 404]]
       ELSE IF kind = "user" /\ executions[id].user_id # u /\ Role(u) # "admin"
       THEN del' = [del EXCEPT ![d] = [r EXCEPT !.pc = "done", !.resp = 403]]
       ELSE del' = [del EXCEPT ![d] = Marked(r, {id})]
    /\ UNCHANGED <<executions, assets, ex, cb, workflows, mon>>

DeleteQuery(d, kind, u, id) ==
    /\ del[d].pc = "idle"
    /\ kind = "admin" => Role(u) = "admin"
    /\ LET r == [del[d] EXCEPT !.kind = kind, !.id = id] IN
       IF ~Exists(id)
       THEN del' = [del EXCEPT ![d] = [r EXCEPT !.pc = "done", !.resp = 404]]
       ELSE IF kind = "user" /\ executions[id].user_id # u /\ Role(u) # "admin"
       THEN del' = [del EXCEPT ![d] = [r EXCEPT !.pc = "done", !.resp = 403]]
       ELSE IF kind = "user" /\ executions[id].status = "running"
       THEN del' = [del EXCEPT ![d] = [r EXCEPT !.pc = "done", !.resp = 400]]
       ELSE del' = [del EXCEPT ![d] = Marked(r, {id})]
    /\ UNCHANGED <<executions, assets, ex, cb, workflows, mon>>

\* ------------------------- DELETE /workflows/{id}, /admin/workflows/{id}
\* the owner's endpoint refuses everyone but the owner, the admin's needs
\* an admin
DeleteWorkflowQuery(d, kind, u, w) ==
    /\ del[d].pc = "idle"
    /\ kind = "workflow_admin" => Role(u) = "admin"
    /\ LET r == [del[d] EXCEPT !.kind = kind, !.id = w] IN
       IF w \notin DOMAIN workflows
       THEN del' = [del EXCEPT ![d] = [r EXCEPT !.pc = "done", !.resp = 404]]
       ELSE IF kind = "workflow" /\ workflows[w].user_id # u
       THEN del' = [del EXCEPT ![d] = [r EXCEPT !.pc = "done", !.resp = 403]]
       ELSE del' = [del EXCEPT ![d] = Marked(r, ExecutionsOf(w))]
    /\ UNCHANGED <<executions, assets, ex, cb, workflows, mon>>

\* the foreign keys of assets.execution_id and executions.workflow_id: a row
\* that another row still refers to cannot be deleted
Referenced(d) ==
    \/ \E a \in assets \ del[d].seen : a.execution_id \in del[d].rows
    \/ /\ del[d].kind \in {"workflow", "workflow_admin"}
       /\ ExecutionsOf(del[d].id) \ del[d].rows # {}

\* a commit no foreign key guards
DeleteCommitUnchecked(d) ==
    /\ del[d].pc = "marked"
    /\ executions' = [i \in DOMAIN executions \ del[d].rows |-> executions[i]]
    /\ assets' = assets \ del[d].seen
    /\ workflows' =
           IF del[d].kind \in {"workflow", "workflow_admin"}
           THEN [w \in DOMAIN workflows \ {del[d].id} |-> workflows[w]]
           ELSE workflows
    /\ del' = [del EXCEPT ![d] = [@ EXCEPT !.pc = "done", !.resp = 200,
                   !.rows = {}, !.seen = {}]]
    /\ UNCHANGED <<ex, cb, mon>>

\* db.commit(): the DELETEs of the marked rows.  A DELETE that finds its row
\* gone only warns; one that a foreign key refuses raises IntegrityError,
\* nothing is deleted and the answer is 500.  The session is closed after.
DeleteCommit(d) ==
    /\ del[d].pc = "marked"
    /\ IF Referenced(d)
       THEN /\ del' = [del EXCEPT ![d] = [@ EXCEPT !.pc = "done", !.resp = 500,
                           !.rows = {}, !.seen = {}]]
            /\ UNCHANGED <<executions, assets, workflows>>
       ELSE /\ executions' =
                   [i \in DOMAIN executions \ del[d].rows |-> executions[i]]
            /\ assets' = assets \ del[d].seen
            /\ workflows' =
                   IF del[d].kind \in {"workflow", "workflow_admin"}
                   THEN [w \in DOMAIN workflows \ {del[d].id} |-> workflows[w]]
                   ELSE workflows
            /\ del' = [del EXCEPT ![d] = [@ EXCEPT !.pc = "done", !.resp = 200,
                           !.rows = {}, !.seen = {}]]
    /\ UNCHANGED <<ex, cb, mon>>

\* ------------------------------------------------------- specification
Next ==
    \/ \E e \in ExecReqs, w \in WorkflowIds \cup UnknownWorkflow, u \in Users :
           ExecuteBegin(e, w, u, NoInputs)
    \/ \E e \in ExecReqs : ExecuteRefresh(e)
    \/ \E e \in ExecReqs : ExecuteDispatch(e)
    \/ \E e \in ExecReqs : ExecuteCommitResult(e)
    \/ \E e \in ExecReqs : ExecuteCommitFailed(e)
    \/ \E e \in ExecReqs : ExecuteRespond(e)
    \/ \E c \in CbReqs, id \in ExecIds, k \in 0..MaxImages : CallbackQuery(c, id, k)
    \/ \E c \in CbReqs : CallbackCommit(c)
    \/ \E d \in DelReqs, kind \in {"user", "admin"}, u \in Users, id \in ExecIds :
           DeleteQuery(d, kind, u, id)
    \/ \E d \in DelReqs : DeleteCommit(d)

Spec == Init /\ [][Next]_vars

\* ---------------------------------------- the Execute handler on its own
\* The stored workflows hold their documents and fields; a request comes
\* from any user, names any workflow and gives any of the input values.
InitExec ==
    /\ executions = <<>>
    /\ assets = {}
    /\ workflows = [w \in WorkflowIds \cup SamplerWorkflow |-> StoredWorkflow(w)]
    /\ Idle

NextExec ==
    \/ \E e \in ExecReqs, u \in Requesters,
          w \in WorkflowIds \cup SamplerWorkflow \cup UnknownWorkflow :
           \E input_values \in RequestInputs(w) :
               ExecuteBegin(e, w, u, input_values)
    \/ \E e \in ExecReqs : ExecuteRefresh(e)
    \/ \E e \in ExecReqs : ExecuteDispatch(e)
    \/ \E e \in ExecReqs : ExecuteCommitResult(e)
    \/ \E e \in ExecReqs : ExecuteCommitFailed(e)
    \/ \E e \in ExecReqs : ExecuteRespond(e)

SpecExec == InitExec /\ [][NextExec]_vars

\* ------------------------------------------- deletions of stored records
\* The store holds execution 1 of workflow 1, owned by user 1, with up to
\* MaxImages assets.  Its status is any value the column documents
\* ("pending, running, completed, failed") or timeout: no handler of this
\* code assigns running or timeout, the delete handler tests for running.
StoredStatuses == NonTerminal \cup Terminal

StoredExecution(status) ==
    CASE status = "completed" ->
             Flush(NewExecution(1, 1), NewExecution(1, 1),
                   CallbackAssigned(Now("callback", 0)))
      [] status = "failed" ->
             Flush(NewExecution(1, 1), NewExecution(1, 1),
                   ExecuteFailedAssigned("ComfyUI API call failed",
                                         Now("execute", 0)))
      [] OTHER -> [NewExecution(1, 1) EXCEPT !.status = status]

InitStored ==
    /\ \E status \in StoredStatuses, k \in 0..MaxImages :
           /\ executions = (1 :> StoredExecution(status))
           /\ assets = NewAssets(0, 1, k)
    /\ workflows = [w \in WorkflowIds |-> PlainWorkflow(w)]
    /\ Idle

NextStored ==
    \/ \E c \in CbReqs, id \in ExecIds, k \in 0..MaxImages : CallbackQuery(c, id, k)
    \/ \E c \in CbReqs : CallbackCommit(c)
    \/ \E d \in DelReqs, kind \in {"user", "admin"}, u \in Requesters,
          id \in ExecIds : DeleteQuery(d, kind, u, id)
    \/ \E d \in DelReqs, kind \in {"workflow", "workflow_admin"},
          u \in Requesters, w \in WorkflowIds \cup UnknownWorkflow :
           DeleteWorkflowQuery(d, kind, u, w)
    \/ \E d \in DelReqs : DeleteCommit(d)

SpecStored == InitStored /\ [][NextStored]_vars

\* ------------------------------------------ the order of the input fields
\* input_fields is a JSON object: the order of field_configs.items() is the
\* order of its keys as stored.  Each stored workflow holds its fields in
\* one of their orders, and a request may give a field the name of a
\* placeholder as its value.
Range(f) == {f[i] : i \in DOMAIN f}

FieldOrders(field_configs) ==
    {q \in [DOMAIN field_configs -> Range(field_configs)] :
         Range(q) = Range(field_configs)}

OrderedWorkflows == {1} \cup SamplerWorkflow

OrderValues ==
    {PyNone, PyStr(<<"a", "b", "c">>), PyInt(42), PyStr(SEED_PLACEHOLDER),
     PyStr(PROMPT_PLACEHOLDER), PyStr(SUBJECT)}

OrderInputs(w) == UNION {[S -> OrderValues] : S \in SUBSET Placeholders(w)}

InitOrder ==
    /\ executions = <<>>
    /\ assets = {}
    /\ \E order \in [OrderedWorkflows -> UNION {FieldOrders(
                         StoredWorkflow(w).input_fields) : w \in OrderedWorkflows}] :
           /\ \A w \in OrderedWorkflows :
                  order[w] \in FieldOrders(StoredWorkflow(w).input_fields)
           /\ workflows = [w \in OrderedWorkflows |->
                  [StoredWorkflow(w) EXCEPT !.input_fields = order[w]]]
    /\ Idle

NextOrder ==
    \/ \E e \in ExecReqs, u \in Users, w \in OrderedWorkflows :
           \E input_values \in OrderInputs(w) :
               ExecuteBegin(e, w, u, input_values)
    \/ \E e \in ExecReqs : ExecuteRefresh(e)
    \/ \E e \in ExecReqs : ExecuteDispatch(e)
    \/ \E e \in ExecReqs : ExecuteCommitResult(e)
    \/ \E e \in ExecReqs : ExecuteCommitFailed(e)
    \/ \E e \in ExecReqs : ExecuteRespond(e)

SpecOrder == InitOrder /\ [][NextOrder]_vars

\* ------------------------------------- a dispatch the engine never answers
\* requests.post(self.api_url, json=...) is called with no timeout argument:
\* the call waits for the engine's answer for as long as the engine holds
\* the connection, and the handler is in the call until then.
ExecutePostUnanswered(e) ==
    /\ ex[e].pc = "refreshed"
    /\ ex[e].wf \in DOMAIN workflows
    /\ LET processed_workflow_data ==
               replace_placeholders(workflows[ex[e].wf].workflow_data,
                                    workflows[ex[e].wf].input_fields,
                                    ex[e].input)
       IN  /\ processed_workflow_data.ok
           /\ ex' = [ex EXCEPT ![e] = [@ EXCEPT !.pc = "posting",
                         !.processed = processed_workflow_data,
                         !.called = TRUE]]
    /\ UNCHANGED <<executions, assets, cb, del, workflows, mon>>

NextLive ==
    \/ Next
    \/ \E e \in ExecReqs : ExecutePostUnanswered(e)

\* the server runs the next step of every handler that has one; a handler
\* inside requests.post has none until the engine answers
SpecLive == Init /\ [][NextLive]_vars /\ WF_vars(Next)

\* ---------------------------------- ComfyUIService._monitor_execution
\* The waiter is the coroutine: it starts the thread of ws.run_forever,
\* waits for the event for at most 300 s, and on expiry closes the socket
\* and writes the timeout into `result`; it then joins the thread for at
\* most 5 s and returns `result`.  The thread runs on_message and on_error,
\* which write into the same dict.  Each step is one group of statements
\* that write one side's keys; the two sides' steps interleave freely.
MaxMessages == 2

\* messages on_message returns from without a write: not JSON, a type
\* other than "executed", the prompt_id of another job
IgnoredKinds == {"unparsable", "other_type", "other_prompt"}
\* the key of data.output of an executed message of this job
Outputs == {"images", "text", "output"}

ResultType(output) ==
    CASE output = "images" -> "image"
      [] output = "text" -> "text"
      [] OTHER -> "other"

\* thread.start() has been called and the waiter is in event.wait
MonWaiting == [MonIdle EXCEPT !.pc = "waiting", !.thread = "open"]

Open == mon.thread = "open" /\ ~mon.closed

StreamIgnored(kind) ==
    /\ Open
    /\ mon.received < MaxMessages
    /\ mon' = [mon EXCEPT !.received = @ + 1, !.seen = @ \cup {kind}]
    /\ UNCHANGED <<executions, assets, ex, cb, del, workflows>>

\* an executed message of this job arrives: on_message is at line 69
StreamExecuted(output) ==
    /\ Open
    /\ mon.received < MaxMessages
    /\ mon' = [mon EXCEPT !.received = @ + 1, !.seen = @ \cup {"executed"},
                          !.thread = "on_message", !.output = output]
    /\ UNCHANGED <<executions, assets, ex, cb, del, workflows>>

\* lines 74-85
OnMessageOutput ==
    /\ mon.thread = "on_message"
    /\ mon' = [mon EXCEPT !.thread = "line_87",
                          !.result.payload = mon.output,
                          !.result.type = ResultType(mon.output)]
    /\ UNCHANGED <<executions, assets, ex, cb, del, workflows>>

\* lines 87-88
OnMessageCompleted ==
    /\ mon.thread = "line_87"
    /\ mon' = [mon EXCEPT !.thread = "line_89",
                          !.result.status = "completed",
                          !.result.prompt_id = TRUE]
    /\ UNCHANGED <<executions, assets, ex, cb, del, workflows>>

\* lines 89-90: the event is set and the socket closed; run_forever ends
OnMessageFinish ==
    /\ mon.thread = "line_89"
    /\ mon' = [mon EXCEPT !.thread = "ended", !.event = TRUE, !.closed = TRUE]
    /\ UNCHANGED <<executions, assets, ex, cb, del, workflows>>

\* the stream fails: run_forever calls on_error
StreamError ==
    /\ Open
    /\ mon' = [mon EXCEPT !.thread = "on_error", !.seen = @ \cup {"error"}]
    /\ UNCHANGED <<executions, assets, ex, cb, del, workflows>>

\* lines 95-96
OnErrorFailed ==
    /\ mon.thread = "on_error"
    /\ mon' = [mon EXCEPT !.thread = "line_97",
                          !.result.status = "failed",
                          !.result.error = "stream"]
    /\ UNCHANGED <<executions, assets, ex, cb, del, workflows>>

\* line 97; run_forever ends after the error
OnErrorFinish ==
    /\ mon.thread = "line_97"
    /\ mon' = [mon EXCEPT !.thread = "ended", !.event = TRUE]
    /\ UNCHANGED <<executions, assets, ex, cb, del, workflows>>

\* run_forever finds the socket closed by the waiter
StreamClosed ==
    /\ mon.thread = "open" /\ mon.closed
    /\ mon' = [mon EXCEPT !.thread = "ended"]
    /\ UNCHANGED <<executions, assets, ex, cb, del, workflows>>

\* event.wait returns True
WaitSignalled ==
    /\ mon.pc = "waiting" /\ mon.event
    /\ mon' = [mon EXCEPT !.pc = "joining"]
    /\ UNCHANGED <<executions, assets, ex, cb, del, workflows>>

\* event.wait(timeout=300) returns False: the event is not set at expiry
WaitExpired ==
    /\ mon.pc = "waiting" /\ ~mon.event
    /\ mon' = [mon EXCEPT !.pc = "line_117", !.expired = TRUE,
                          !.seenInWait = mon.seen]
    /\ UNCHANGED <<executions, assets, ex, cb, del, workflows>>

\* line 117
TimeoutClose ==
    /\ mon.pc = "line_117"
    /\ mon' = [mon EXCEPT !.pc = "line_118", !.closed = TRUE]
    /\ UNCHANGED <<executions, assets, ex, cb, del, workflows>>

\* lines 118-119
TimeoutAssign ==
    /\ mon.pc = "line_118"
    /\ mon' = [mon EXCEPT !.pc = "joining",
                          !.result.status = "timeout",
                          !.result.error = "timeout"]
    /\ UNCHANGED <<executions, assets, ex, cb, del, workflows>>

\* thread.join(timeout=5) returns, the thread ended or not, and the call
\* returns the dict
Join ==
    /\ mon.pc = "joining"
    /\ mon' = [mon EXCEPT !.pc = "returned"]
    /\ UNCHANGED <<executions, assets, ex, cb, del, workflows>>

Waiter == WaitSignalled \/ WaitExpired \/ TimeoutClose \/ TimeoutAssign \/ Join

Thread ==
    \/ OnMessageOutput \/ OnMessageCompleted \/ OnMessageFinish
    \/ OnErrorFailed \/ OnErrorFinish \/ StreamClosed

InitMonitor ==
    /\ executions = <<>>
    /\ assets = {}
    /\ workflows = [w \in WorkflowIds |-> PlainWorkflow(w)]
    /\ ex = [e \in ExecReqs |-> ExIdle]
    /\ cb = [c \in CbReqs |-> CbIdle]
    /\ del = [d \in DelReqs |-> DelIdle]
    /\ mon = MonWaiting

NextMonitor ==
    \/ \E kind \in IgnoredKinds : StreamIgnored(kind)
    \/ \E output \in Outputs : StreamExecuted(output)
    \/ StreamError
    \/ Thread
    \/ Waiter

\* both threads run; what the engine streams, and when, is up to the engine
SpecMonitor ==
    InitMonitor /\ [][NextMonitor]_vars /\ WF_vars(Waiter) /\ WF_vars(Thread)

\* ------------------------------------------------------------ properties
Row(id) == executions[id]

\* C1: once a record's status is completed, failed or timeout, no later
\* operation changes it to a different value (so a Callback delivered to a
\* failed or timeout record leaves the status as it was).
C1_TerminalIsFinal ==
    [][\A id \in DOMAIN executions \cap DOMAIN executions' :
          executions[id].status \in Terminal
              => executions'[id].status = executions[id].status]_vars

\* C2: a record stored as completed, failed or timeout is never afterwards
\* stored as pending or running.
C2_NeverBackToNonTerminal ==
    [][\A id \in DOMAIN executions \cap DOMAIN executions' :
          executions[id].status \in Terminal
              => executions'[id].status \notin NonTerminal]_vars

\* C3: when the Execute handler has answered 200 (dispatch succeeded) and a
\* Callback for the same record has answered success, the stored record has
\* the engine's job id, status completed and the callback's Artifacts.
C3_BothWritesApplied ==
    \A e \in ExecReqs, c \in CbReqs :
        ( /\ ex[e].pc = "done" /\ ex[e].resp = 200
          /\ cb[c].pc = "done" /\ cb[c].resp = 200 /\ cb[c].id = ex[e].id
          /\ Exists(ex[e].id) )
        => /\ Row(ex[e].id).comfyui_prompt_id = ex[e].prompt_id
           /\ Row(ex[e].id).status = "completed"
           /\ NewAssets(c, cb[c].id, cb[c].k) \subseteq assets

\* C4: once comfyui_prompt_id of a record is not NULL, no step changes it to
\* another value or back to NULL while the record exists.
C4_PromptIdSetOnce ==
    [][\A id \in DOMAIN executions \cap DOMAIN executions' :
          executions[id].comfyui_prompt_id # NULL
              => executions'[id].comfyui_prompt_id
                     = executions[id].comfyui_prompt_id]_vars

\* a record that got its job id from Execute and was then written by a
\* Callback (completed_at is the callback's)
C4_Witness ==
    \E id \in DOMAIN executions, c \in CbReqs :
        /\ Row(id).comfyui_prompt_id # NULL
        /\ Row(id).completed_at = Some(Now("callback", c))
        /\ Row(id).status = "completed"

\* C5: the step in which the Execute handler finishes after a failed
\* dispatch leaves its record with status failed, a non-empty error_message,
\* completed_at set and comfyui_prompt_id NULL, and answers 500 with the
\* failure detail.
C5_DispatchFailureRecorded ==
    [][\A e \in ExecReqs :
          ( /\ ex[e].pc = "dispatched" /\ ex[e].result = "raised"
            /\ ex'[e].pc = "done" /\ Exists(ex[e].id) )
          => /\ ex[e].id \in DOMAIN executions'
             /\ executions'[ex[e].id].status = "failed"
             /\ executions'[ex[e].id].error_message # NULL
             /\ executions'[ex[e].id].error_message # Some("")
             /\ executions'[ex[e].id].completed_at = Some(Now("execute", e))
             /\ executions'[ex[e].id].comfyui_prompt_id = NULL
             /\ ex'[e].resp = 500
             /\ ex'[e].detail =
                    "Workflow execution failed: ComfyUI API call failed"]_vars

C5_Witness ==
    \E e \in ExecReqs :
        /\ ex[e].pc = "done" /\ ex[e].result = "raised" /\ ex[e].resp = 500
        /\ Exists(ex[e].id)
        /\ Row(ex[e].id).status = "failed"
        /\ Row(ex[e].id).error_message # NULL
        /\ Row(ex[e].id).comfyui_prompt_id = NULL

\* C6 as stated: the response of a successful Execute reports status pending.
C6_ResponseReportsPending ==
    \A e \in ExecReqs :
        ex[e].pc = "done" /\ ex[e].resp = 200 => ex[e].respStatus = "pending"

\* C6 amended: the commit after a successful dispatch stores the engine's job
\* id and writes no status but pending (it never turns a record completed);
\* the response reports the status stored when it is built: pending when no
\* Callback has succeeded for the record, pending or completed otherwise.
C6_DispatchSuccessRecorded ==
    [][\A e \in ExecReqs :
          /\ ( /\ ex[e].pc = "dispatched" /\ ex[e].result # "raised"
               /\ ex'[e].pc = "written" )
             => /\ ex[e].prompt_id # NULL
                /\ executions'[ex[e].id].comfyui_prompt_id = ex[e].prompt_id
                /\ executions'[ex[e].id].status
                       \in {executions[ex[e].id].status, "pending"}
          /\ ( /\ ex[e].pc = "written" /\ ex'[e].pc = "done"
               /\ ex'[e].resp = 200 )
             => /\ ex'[e].respStatus = executions[ex[e].id].status
                /\ ex'[e].respStatus \in {"pending", "completed"}
                /\ (\A c \in CbReqs : ~(cb[c].resp = 200 /\ cb[c].id = ex[e].id))
                       => ex'[e].respStatus = "pending"]_vars

\* the response reports completed, and the job id is stored
C6_Witness ==
    \E e \in ExecReqs :
        /\ ex[e].pc = "done" /\ ex[e].resp = 200
        /\ ex[e].respStatus = "completed"
        /\ Exists(ex[e].id)
        /\ Row(ex[e].id).comfyui_prompt_id = ex[e].prompt_id

\* C7: a Callback whose id matches no record answers 404 at once, inserts no
\* Asset and changes no record.
C7_UnknownIdNotFound ==
    [][\A c \in CbReqs :
          ( /\ cb[c].pc = "idle" /\ cb'[c].pc # "idle"
            /\ cb'[c].id \notin DOMAIN executions )
          => /\ cb'[c].pc = "done"
             /\ cb'[c].resp = 404
             /\ cb'[c].assets_added = 0
             /\ executions' = executions
             /\ assets' = assets]_vars

\* a Callback answered 404 while a record of another id is stored
C7_Witness ==
    \E c \in CbReqs :
        /\ cb[c].pc = "done" /\ cb[c].resp = 404
        /\ ~Exists(cb[c].id)
        /\ DOMAIN executions # {}

\* C8: the commit of a Callback that answers success leaves the record with
\* status completed and completed_at set, inserts exactly k Assets, all of
\* that record, and reports images_count = assets_added = k.
C8_CallbackCompletes ==
    [][\A c \in CbReqs :
          ( /\ cb[c].pc = "found" /\ cb'[c].pc = "done" /\ cb'[c].resp = 200 )
          => /\ cb[c].id \in DOMAIN executions'
             /\ executions'[cb[c].id].status = "completed"
             /\ executions'[cb[c].id].completed_at = Some(Now("callback", c))
             /\ assets \subseteq assets'
             /\ Cardinality(assets' \ assets) = cb[c].k
             /\ \A a \in assets' \ assets : a.execution_id = cb[c].id
             /\ cb'[c].images_count = cb[c].k
             /\ cb'[c].assets_added = cb[c].k]_vars

\* C9: when the commit of a Callback fails, the step changes no record and
\* no Asset, and the answer is 500.
C9_FailedCommitRollsBack ==
    [][\A c \in CbReqs :
          ( /\ cb[c].pc = "found" /\ cb'[c].pc = "done" /\ cb'[c].resp # 200 )
          => /\ cb'[c].fault
             /\ cb'[c].resp = 500
             /\ executions' = executions
             /\ assets' = assets]_vars

\* a Callback failed on a stored record, which is still pending and has no
\* Asset of that Callback
C9_Witness ==
    \E c \in CbReqs :
        /\ cb[c].pc = "done" /\ cb[c].fault /\ cb[c].resp = 500
        /\ cb[c].k > 0
        /\ Exists(cb[c].id)
        /\ Row(cb[c].id).status = "pending"
        /\ Row(cb[c].id).completed_at = NULL
        /\ AssetsOf(cb[c].id) = {}

\* C10: the commit of a Callback on a record stored as completed answers
\* success unless the store fails, and leaves the status completed.
C10_RepeatedCallback ==
    [][\A c \in CbReqs :
          ( /\ cb[c].pc = "found" /\ cb'[c].pc = "done"
            /\ Exists(cb[c].id)
            /\ executions[cb[c].id].status = "completed" )
          => /\ cb'[c].resp = 200 \/ (cb'[c].resp = 500 /\ cb'[c].fault)
             /\ cb[c].id \in DOMAIN executions'
             /\ executions'[cb[c].id].status = "completed"]_vars

\* two Callbacks answered success for one record, which is completed
C10_Witness ==
    \E c1, c2 \in CbReqs :
        /\ c1 # c2
        /\ cb[c1].pc = "done" /\ cb[c1].resp = 200
        /\ cb[c2].pc = "done" /\ cb[c2].resp = 200
        /\ cb[c1].id = cb[c2].id
        /\ Exists(cb[c1].id)
        /\ Row(cb[c1].id).status = "completed"
        /\ Row(cb[c1].id).completed_at = Some(Now("callback", c2))

\* C11: a delete through the user's endpoint of a record that is stored with
\* status running is refused in the step that queries it (400, or 403 when
\* the requester may not delete the record at all), the request is over,
\* and the step changes no record and no Asset.
C11_RunningDeleteRejected ==
    [][\A d \in DelReqs :
          ( /\ del[d].pc = "idle" /\ del'[d].pc # "idle"
            /\ del'[d].kind = "user"
            /\ Exists(del'[d].id)
            /\ executions[del'[d].id].status = "running" )
          => /\ del'[d].pc = "done"
             /\ del'[d].resp \in {400, 403}
             /\ executions' = executions
             /\ assets' = assets]_vars

\* a refused delete of a running record that has Assets
C11_Witness ==
    \E d \in DelReqs :
        /\ del[d].pc = "done" /\ del[d].kind = "user" /\ del[d].resp = 400
        /\ Exists(del[d].id)
        /\ Row(del[d].id).status = "running"
        /\ AssetsOf(del[d].id) # {}

C18_NoOrphanAsset ==
    \A a \in assets : a.execution_id \in DOMAIN executions

\* a delete removed the record while a Callback that had found it was still
\* to commit its Assets: the Callback's commit failed and no Asset is stored
C18_Witness ==
    \E d \in DelReqs, c \in CbReqs :
        /\ del[d].pc = "done" /\ del[d].resp = 200
        /\ cb[c].pc = "done" /\ cb[c].resp = 500 /\ cb[c].k > 0
        /\ cb[c].id \notin DOMAIN executions
        /\ assets = {}

\* C13: Execute by a requester who is neither the owner nor an admin, on a
\* workflow whose status is not OPEN, is answered 403 in the step that
\* queries the workflow; no record is created and the engine is not called.
C13_ForeignDraftForbidden ==
    [][\A e \in ExecReqs :
          ( /\ ex[e].pc = "idle" /\ ex'[e].pc # "idle"
            /\ ex'[e].wf \in DOMAIN workflows
            /\ workflows[ex'[e].wf].status # "OPEN"
            /\ workflows[ex'[e].wf].user_id # ex'[e].user
            /\ Role(ex'[e].user) # "admin" )
          => /\ ex'[e].pc = "done"
             /\ ex'[e].resp = 403
             /\ ~ex'[e].called
             /\ executions' = executions]_vars

\* C14: Execute by the owner of a workflow whose status is not OPEN passes
\* the check: the step that queries the workflow stores a pending record
\* and the handler goes on to the dispatch.
C14_OwnerRunsOwnDraft ==
    [][\A e \in ExecReqs :
          ( /\ ex[e].pc = "idle" /\ ex'[e].pc # "idle"
            /\ ex'[e].wf \in DOMAIN workflows
            /\ workflows[ex'[e].wf].status # "OPEN"
            /\ workflows[ex'[e].wf].user_id = ex'[e].user )
          => /\ ex'[e].pc = "created"
             /\ ex'[e].id \in DOMAIN executions'
             /\ executions'[ex'[e].id].status = "pending"]_vars

\* C15: Execute that names a workflow the store does not hold is answered
\* 404 in the step that queries it; the step creates no record, the engine
\* has not been called, and the request takes no further step.
C15_UnknownWorkflowNotFound ==
    [][\A e \in ExecReqs :
          /\ ( /\ ex[e].pc = "idle" /\ ex'[e].pc # "idle"
               /\ ex'[e].wf \notin DOMAIN workflows )
             => /\ ex'[e].pc = "done"
                /\ ex'[e].resp = 404
                /\ ~ex'[e].called
                /\ executions' = executions
          /\ ex[e].resp = 404 => ex'[e] = ex[e]]_vars

\* an Execute for workflow 3 answered 404, and no record is stored
C15_Witness ==
    \E e \in ExecReqs :
        /\ ex[e].pc = "done" /\ ex[e].resp = 404
        /\ ex[e].wf \in UnknownWorkflow
        /\ ~ex[e].called
        /\ DOMAIN executions = {}

\* the Execute of request e has raised out of replace_placeholders: the
\* text after the replacements is not a JSON document
SubstitutionFailed(e) ==
    /\ ex[e].wf \in DOMAIN workflows
    /\ ex[e].result = "raised"
    /\ ~ex[e].called
    /\ ~ex[e].processed.ok

\* C16: when the text after the replacements cannot be deserialized,
\* Execute answers 400 with the detail of the parse error, and the engine
\* has not been called.
C16_MalformedAnswered400 ==
    [][\A e \in ExecReqs :
          (SubstitutionFailed(e) /\ ex[e].pc # "done" /\ ex'[e].pc = "done")
          => /\ ex'[e].resp = 400
             /\ ex'[e].detail = "Failed to process workflow data: JSONDecodeError"
             /\ ~ex'[e].called]_vars

\* C17: when the substitution fails, the step that ends the request leaves
\* the request's record failed with an errorMessage that is set and not
\* empty and with no prompt id, and answers the caller with an error; and
\* no Execute that ends in an error leaves its record pending.
C17_SubstitutionFailureRecorded ==
    [][\A e \in ExecReqs :
          /\ (SubstitutionFailed(e) /\ ex[e].pc # "done" /\ ex'[e].pc = "done")
             => /\ ex'[e].resp >= 400
                /\ ex[e].id \in DOMAIN executions'
                /\ executions'[ex[e].id].status = "failed"
                /\ executions'[ex[e].id].error_message \notin {NULL, Some("")}
                /\ executions'[ex[e].id].comfyui_prompt_id = NULL
          /\ ( /\ ex[e].pc # "done" /\ ex'[e].pc = "done"
               /\ ex'[e].resp >= 400
               /\ ex[e].id \in DOMAIN executions' )
             => executions'[ex[e].id].status # "pending"]_vars

\* what Python answers for the raw values of the model. int(v) and float(v)
\* of the values that are not empty and that the conversion accepts (the
\* others are empty, or raise ValueError or TypeError), and str(v), '' for
\* None
PythonInt(v) ==
    CASE v = PyStr(<<"4", "2">>) -> Some(42)
      [] v = PyStr(<<" ", "-", "7", " ">>) -> Some(0 - 7)
      [] v = PyInt(42) -> Some(42)
      [] v = PyFloat(45, 1) -> Some(4)
      [] OTHER -> NULL

PythonFloat(v) ==
    CASE v = PyStr(<<"4", "2">>) -> Some(PyFloat(42, 0))
      [] v = PyStr(<<" ", "-", "7", " ">>) -> Some(PyFloat(0 - 7, 0))
      [] v = PyStr(<<"4", ".", "5">>) -> Some(PyFloat(45, 1))
      [] v = PyInt(42) -> Some(PyFloat(42, 0))
      [] v = PyFloat(45, 1) -> Some(PyFloat(45, 1))
      [] OTHER -> NULL

PythonStr(v) ==
    CASE v = PyNone -> <<>>
      [] v = PyInt(42) -> <<"4", "2">>
      [] v = PyInt(0) -> <<"0">>
      [] v = PyFloat(45, 1) -> <<"4", ".", "5">>
      [] OTHER -> v.s

\* the value request e gives the field, the default where it names none
Given(e, placeholder, default) ==
    IF placeholder \in DOMAIN ex[e].input THEN ex[e].input[placeholder]
    ELSE default

\* a text that can stand between two quotes of a JSON document
Harmless(s) == \A i \in DOMAIN s : s[i] # Q

\* request e has been through replace_placeholders
Substituted(e) == ex[e].wf \in DOMAIN workflows /\ ex[e].result # "none"

Key_seed == <<"s", "e", "e", "d">>
Key_prompt == <<"p", "r", "o", "m", "p", "t">>
Key_cfg == <<"c", "f", "g">>
Key_text == <<"t", "e", "x", "t">>
Key_steps == <<"s", "t", "e", "p", "s">>

\* C19: the leaf a number field fills is the integer its value parses as,
\* and 0 where the value is empty or does not parse; the leaf a float
\* field fills is the float its value parses as, and 0.0 where the value
\* is empty or does not parse.
C19_NumericCoercion ==
    \A e \in ExecReqs :
        Substituted(e) =>
            /\ ( /\ ex[e].wf = 1
                 /\ Harmless(PythonStr(Given(e, PROMPT_PLACEHOLDER, PyStr(<<>>)))) )
               => LET parsed == PythonInt(Given(e, SEED_PLACEHOLDER, PyInt(0)))
                  IN  /\ ex[e].processed.ok
                      /\ ex[e].processed.doc[Key_seed] =
                             IF parsed = NULL THEN PyInt(0) ELSE PyInt(parsed[1])
            /\ ( /\ ex[e].wf \in SamplerWorkflow
                 /\ Harmless(PythonStr(Given(e, SUBJECT, PyStr(<<"c", "a", "t">>)))) )
               => LET parsed == PythonFloat(Given(e, CFG, PyStr(<<>>)))
                  IN  /\ ex[e].processed.ok
                      /\ ex[e].processed.doc[Key_cfg] =
                             IF parsed = NULL THEN PyFloat(0, 0) ELSE parsed[1]

\* a request gave the number field of workflow 1 the string abc, and the
\* document sent to the engine holds the integer 0 in its place
C19_Witness ==
    \E e \in ExecReqs :
        /\ ex[e].wf = 1 /\ ex[e].called
        /\ SEED_PLACEHOLDER \in DOMAIN ex[e].input
        /\ ex[e].input[SEED_PLACEHOLDER] = PyStr(<<"a", "b", "c">>)
        /\ ex[e].processed.ok
        /\ ex[e].processed.doc[Key_seed] = PyInt(0)

\* C20: each field takes the request's value where the request names it and
\* the field's default otherwise; a numeric field's quoted placeholder
\* becomes a number, a textual field's placeholder is replaced inside the
\* string that holds it; and workflow 1, {seed: "SEED_PLACEHOLDER",
\* prompt: "PROMPT_PLACEHOLDER"}, with SEED_PLACEHOLDER = 42 and no
\* PROMPT_PLACEHOLDER becomes {seed: 42, prompt: ""}.
C20_Substitution ==
    \A e \in ExecReqs :
        Substituted(e) =>
            /\ (ex[e].wf = 1 /\ ex[e].input = (SEED_PLACEHOLDER :> PyInt(42)))
               => ex[e].processed =
                      [ok |-> TRUE,
                       doc |-> (Key_seed :> PyInt(42)) @@
                               (Key_prompt :> PyStr(<<>>))]
            /\ ex[e].wf = 1
               => LET text == PythonStr(Given(e, PROMPT_PLACEHOLDER, PyStr(<<>>)))
                  IN  Harmless(text)
                      => /\ ex[e].processed.ok
                         /\ DOMAIN ex[e].processed.doc = {Key_seed, Key_prompt}
                         /\ ex[e].processed.doc[Key_prompt] = PyStr(text)
                         /\ ex[e].processed.doc[Key_seed].t = "int"
            /\ ex[e].wf \in SamplerWorkflow
               => LET text == PythonStr(Given(e, SUBJECT, PyStr(<<"c", "a", "t">>)))
                  IN  Harmless(text)
                      => /\ ex[e].processed.ok
                         /\ DOMAIN ex[e].processed.doc =
                                {Key_cfg, Key_text, Key_steps}
                         /\ ex[e].processed.doc[Key_text] =
                                PyStr(<<"p", "h", "o", "t", "o", " ", "o", "f", " ">> \o text)
                         /\ ex[e].processed.doc[Key_cfg].t = "float"
                         /\ ex[e].processed.doc[Key_steps] = PyInt(20)

\* the example's request has been through the substitution and its
\* document has gone to the engine
C20_Witness ==
    \E e \in ExecReqs :
        /\ ex[e].wf = 1 /\ ex[e].called
        /\ ex[e].input = (SEED_PLACEHOLDER :> PyInt(42))
        /\ ex[e].processed.doc[Key_seed] = PyInt(42)
        /\ ex[e].processed.doc[Key_prompt] = PyStr(<<>>)

\* C22: while an Execute is between its insert and its dispatch, its record
\* is stored with status pending and with no prompt id and no
\* error_message, nothing has been substituted and the engine has not been
\* called; a request for which the substitution or the engine's call has
\* been attempted has its record stored.
C22_PendingBeforeDispatch ==
    \A e \in ExecReqs :
        /\ ex[e].pc \in {"created", "refreshed"}
           => /\ ex[e].id \in DOMAIN executions
              /\ executions[ex[e].id].status = "pending"
              /\ executions[ex[e].id].comfyui_prompt_id = NULL
              /\ executions[ex[e].id].error_message = NULL
              /\ ~ex[e].called
              /\ ex[e].result = "none"
              /\ ex[e].processed = Unprocessed
        /\ (ex[e].called \/ ex[e].result # "none")
           => ex[e].id \in DOMAIN executions

\* the engine has been called for a request whose record is stored
C22_Witness ==
    \E e \in ExecReqs :
        /\ ex[e].pc = "dispatched" /\ ex[e].called /\ ex[e].result = "pending"
        /\ ex[e].id \in DOMAIN executions
        /\ executions[ex[e].id].status = "pending"
        /\ executions[ex[e].id].comfyui_prompt_id = NULL

\* C23: the commit after a successful dispatch changes neither status nor
\* completed_at of its record, and the commit of a Callback changes none of
\* comfyui_prompt_id, output_data and error_message.
C23_DisjointWrites ==
    [][\A id \in DOMAIN executions \cap DOMAIN executions' :
          /\ (\E e \in ExecReqs : /\ ex[e].id = id
                                  /\ ex[e].pc = "dispatched"
                                  /\ ex'[e].pc = "written")
             => /\ executions'[id].status = executions[id].status
                /\ executions'[id].completed_at = executions[id].completed_at
          /\ (\E c \in CbReqs : /\ cb[c].id = id
                                /\ cb[c].pc = "found"
                                /\ cb'[c].pc = "done")
             => /\ executions'[id].comfyui_prompt_id =
                       executions[id].comfyui_prompt_id
                /\ executions'[id].output_data = executions[id].output_data
                /\ executions'[id].error_message =
                       executions[id].error_message]_vars

\* the number of URLs the Callbacks answered with success have delivered
\* for record id
RECURSIVE Delivered(_, _)
Delivered(S, id) ==
    IF S = {} THEN 0
    ELSE LET c == CHOOSE x \in S : TRUE
         IN  (IF cb[c].pc = "done" /\ cb[c].resp = 200 /\ cb[c].id = id
              THEN cb[c].k ELSE 0) + Delivered(S \ {c}, id)

\* C24: the Assets the Callbacks have inserted for a stored record are as
\* many as the URLs of all the deliveries answered with success, whatever
\* Assets the record had: n deliveries of k URLs leave n * k of them.
C24_NoDeduplication ==
    \A id \in DOMAIN executions :
        Cardinality({a \in AssetsOf(id) : a.id[1] \in CbReqs}) =
            Delivered(CbReqs, id)

\* two deliveries of MaxImages URLs for a record that had an Asset already
C24_Witness ==
    \E id \in DOMAIN executions :
        /\ \A c \in 1..2 : /\ cb[c].pc = "done" /\ cb[c].resp = 200
                           /\ cb[c].id = id /\ cb[c].k = MaxImages
        /\ \E a \in AssetsOf(id) : a.id[1] = 0
        /\ Cardinality({a \in AssetsOf(id) : a.id[1] \in CbReqs}) = 2 * MaxImages

\* C27: every stored record has status pending, completed or failed, and a
\* record that has a prompt id and for which no Callback was answered with
\* success is pending.
C27_StatusesAssigned ==
    \A id \in DOMAIN executions :
        /\ executions[id].status \in {"pending", "completed", "failed"}
        /\ ( /\ executions[id].comfyui_prompt_id # NULL
             /\ \A c \in CbReqs : ~(/\ cb[c].pc = "done" /\ cb[c].resp = 200
                                    /\ cb[c].id = id) )
           => executions[id].status = "pending"

\* an Execute has answered, its record has the prompt id, no Callback has
\* been sent and the record is pending
C27_Witness ==
    \E e \in ExecReqs :
        /\ ex[e].pc = "done" /\ ex[e].resp = 200
        /\ ex[e].id \in DOMAIN executions
        /\ executions[ex[e].id].comfyui_prompt_id # NULL
        /\ executions[ex[e].id].status = "pending"
        /\ \A c \in CbReqs : cb[c].pc = "idle"

\* C28: a stored record whose completed_at is set has a terminal status.
C28_CompletedAtOnlyTerminal ==
    \A id \in DOMAIN executions :
        executions[id].completed_at # NULL
        => executions[id].status \in Terminal

\* C26: no step of an Execute changes a stored workflow (its document, its
\* fields, its status), and none changes the input values of the request
\* once the handler has them.
C26_TemplateUnchanged ==
    [][/\ workflows' = workflows
       /\ \A e \in ExecReqs :
              ex[e].pc # "idle"
              => /\ ex'[e].input = ex[e].input
                 /\ ex'[e].wf = ex[e].wf]_vars

\* an Execute has answered 200 with a document in which the placeholder is
\* replaced, and the stored workflow is the one it was
C26_Witness ==
    \E e \in ExecReqs :
        /\ ex[e].pc = "done" /\ ex[e].resp = 200 /\ ex[e].wf = 1
        /\ ex[e].processed.ok
        /\ ex[e].processed.doc[Key_seed] = PyInt(42)
        /\ workflows[1] = StoredWorkflow(1)
        /\ workflows[1].workflow_data = ExampleData

\* the documents the substitution gives request e under every order of the
\* fields of its workflow
Reordered(e) ==
    {replace_placeholders(workflows[ex[e].wf].workflow_data, q, ex[e].input) :
         q \in FieldOrders(workflows[ex[e].wf].input_fields)}

\* sub occurs in the text s
Occurs(sub, s) ==
    \E i \in 1..(Len(s) - Len(sub) + 1) : SubSeq(s, i, i + Len(sub) - 1) = sub

\* no value of request e is a string in which a placeholder of its workflow
\* occurs (the defaults of the stored workflows hold none)
NoPlaceholderGiven(e) ==
    \A name \in DOMAIN ex[e].input, placeholder \in Placeholders(ex[e].wf) :
        ex[e].input[name].t = "str"
        => ~Occurs(placeholder, ex[e].input[name].s)

C21_DispatchBounded ==
    \A e \in ExecReqs :
        (ex[e].pc = "posting")
            ~> ( /\ ex[e].pc = "done"
                 /\ ex[e].id \in DOMAIN executions
                    => executions[ex[e].id].status # "pending" )

\* C25: the result is completed only when an executed message of the
\* awaited job has arrived; and when the wait has expired with no such
\* message and no stream error arrived in it, the call returns timeout.
C25_MonitorOutcome ==
    /\ mon.result.status = "completed" => "executed" \in mon.seen
    /\ ( /\ mon.pc = "returned" /\ mon.expired
         /\ mon.seenInWait \cap {"executed", "error"} = {} )
       => mon.result.status = "timeout"

\* C29: the result the call has returned has status completed, failed or
\* timeout; completed comes with no error, failed and timeout with no
\* output; and no step replaces completed by another status.
C29_ConsistentOutcome ==
    [][/\ mon'.pc = "returned"
          => /\ mon'.result.status \in {"completed", "failed", "timeout"}
             /\ mon'.result.status = "completed"
                => mon'.result.error = "absent"
             /\ mon'.result.status \in {"failed", "timeout"}
                => mon'.result.payload = "absent"
       /\ mon.result.status = "completed"
          => mon'.result.status = "completed"]_vars

\* every call of _monitor_execution returns
MonitorReturns == <>(mon.pc = "returned")
====
